---- MODULE Spec2Model ----
(***************************************************************************)
(* Model of pandaserver/taskbuffer/GlobalShares.py: the tree of shares     *)
(* (Node, Share), its construction from the hierarchy store, the weight    *)
(* normalization, the leaf enumeration, the HS06 distribution refresh with *)
(* its bottom-up aggregation, the under-pledge ordering of the leaves and  *)
(* the classification of a task.                                           *)
(*                                                                         *)
(* Python floats are modelled as exact rationals <<n, d>> in lowest terms  *)
(* (d > 0): sums and products are exact, so an equality of the model       *)
(* stands for an equality up to floating-point rounding in the program.    *)
(***************************************************************************)
EXTENDS Integers, Sequences, FiniteSets, TLC

VARIABLES
    store,            \* rows of the shares table, in the order getShares returns them
    phase,            \* "new" before GlobalShares(); "built" once the tree and the
                      \* leaves are there (line 218); then "ready" or "failed"
    tree,             \* self.tree: the root Share with its children
    default_leaves,   \* the default list object of Node.get_leaves(leaves=[]);
                      \* self.leave_shares is this same list
    leaves_calls,     \* calls of tree.get_leaves() after the constructor's
    hs_distribution,  \* self.__hs_distribution: share name -> {field -> value}
    reload_pc,        \* "idle", or "aggregate": line 236 done, line 237 to come
    reload_caller,    \* who called reload_hs_distribution
    reload_raw,       \* the rows the last successful query returned
    call,             \* the last step taken: [op, arg]
    raised,           \* the exception it ended with, or "none"
    returned          \* the value it returned (<<>> when none)

vars == <<store, phase, tree, default_leaves, leaves_calls, hs_distribution,
          reload_pc, reload_caller, reload_raw, call, raised, returned>>

(***************************************************************************)
(* Bounds of the model.                                                    *)
(***************************************************************************)
\* CPython's recursion limit (sys.getrecursionlimit(), 1000 by default), scaled
\* down: the depth of nested __load_branch calls at which the interpreter raises
\* RuntimeError.  The code itself has no depth check.
RecursionLimit == 3
\* rows of the shares table in the exhaustive build specification
MaxRows == 3
\* calls of tree.get_leaves() after construction
MaxLeavesCalls == 2
\* rows returned by one fetch of the raw statistics
MaxRaw == 2

(***************************************************************************)
(* Python float arithmetic, as exact rationals.                            *)
(***************************************************************************)
RECURSIVE GCD(_, _)
GCD(a, b) == IF b = 0 THEN a ELSE GCD(b, a % b)

Abs(n) == IF n < 0 THEN -n ELSE n

Rat(n, d) == LET g == GCD(Abs(n), d) IN <<n \div g, d \div g>>

Float(i) == <<i, 1>>
Mul(x, y) == Rat(x[1] * y[1], x[2] * y[2])
\* division by zero is guarded by the callers (ZeroDivisionError)
Div(x, y) == IF y[1] > 0 THEN Rat(x[1] * y[2], x[2] * y[1])
                         ELSE Rat(-(x[1] * y[2]), x[2] * (-y[1]))
Add(x, y) == Rat(x[1] * y[2] + y[1] * x[2], x[2] * y[2])
Sub(x, y) == Rat(x[1] * y[2] - y[1] * x[2], x[2] * y[2])
Gt(x, y)  == x[1] * y[2] > y[1] * x[2]
IsZero(x) == x[1] = 0

(***************************************************************************)
(* Definitions (GlobalShares.py lines 8-11) and values of the model.       *)
(***************************************************************************)
EXECUTING == "executing"
QUEUED == "queued"
PLEDGED == "pledged"
IGNORE == "ignore"

\* Python's None, for a parent name
NoParent == "None"
\* Python's None, for a classifier pattern; Pat(re) is a regular expression
NoPattern == [isNone |-> TRUE, re |-> <<>>]
Pat(re) == [isNone |-> FALSE, re |-> re]

(***************************************************************************)
(* class Share                                                             *)
(***************************************************************************)
Share(name, value, parent, prodsourcelabel, workinggroup, campaign, processingtype) ==
    [name |-> name, value |-> value, parent |-> parent,
     prodsourcelabel |-> prodsourcelabel, workinggroup |-> workinggroup,
     campaign |-> campaign, processingtype |-> processingtype,
     children |-> <<>>]

RootShare == Share("root", Float(100), NoParent, NoPattern, NoPattern, NoPattern, NoPattern)

ShareOfRow(r) == Share(r.name, Float(r.value), r.parent, r.prodsourcelabel,
                       r.workinggroup, r.campaign, r.processingtype)

(***************************************************************************)
(* taskBuffer.getShares(parents=p): the rows whose parent is p.            *)
(***************************************************************************)
getShares(rows, p) == SelectSeq(rows, LAMBDA r: r.parent = p)

(***************************************************************************)
(* GlobalShares.__load_branch.  The recursion follows the rows of the      *)
(* store with no check of its own; LoadOverflows tells whether the nested  *)
(* calls reach the interpreter's recursion limit.                          *)
(***************************************************************************)
RECURSIVE LoadOverflows(_, _, _)
LoadOverflows(rows, name, depth) ==
    \/ depth > RecursionLimit
    \/ LET children == getShares(rows, name)
       IN  \E i \in 1..Len(children) : LoadOverflows(rows, children[i].name, depth + 1)

RECURSIVE load_branch(_, _)
load_branch(rows, share) ==
    LET children == getShares(rows, share.name)
    IN  [share EXCEPT !.children =
            IF Len(children) = 0 THEN <<>>
            ELSE [i \in 1..Len(children) |->
                    load_branch(rows, ShareOfRow(children[i]))]]

\* lines 204-212: the root and its branches; a RuntimeError in a branch leaves the
\* branches appended before it
LoadFails(rows) ==
    LET top == getShares(rows, NoParent)
    IN  \E i \in 1..Len(top) : LoadOverflows(rows, top[i].name, 1)

LoadTree(rows) ==
    LET top == getShares(rows, NoParent)
        bad == {i \in 1..Len(top) : LoadOverflows(rows, top[i].name, 1)}
        n   == IF bad = {} THEN Len(top)
               ELSE (CHOOSE i \in bad : \A j \in bad : i <= j) - 1
    IN  [RootShare EXCEPT !.children =
            IF n = 0 THEN <<>>
            ELSE [i \in 1..n |-> load_branch(rows, ShareOfRow(top[i]))]]

(***************************************************************************)
(* Share.normalize (lines 89-106).  NormalizeRaises: some call divides by  *)
(* a zero divider (line 93).  normalize returns the tree as the calls      *)
(* leave it: a raise stops the walk, the nodes visited before it keep      *)
(* their new values and the others their old ones.                         *)
(***************************************************************************)
SumValues(children) ==
    LET RECURSIVE S(_)
        S(i) == IF i = 0 THEN Float(0) ELSE Add(S(i - 1), children[i].value)
    IN  S(Len(children))

RECURSIVE NormalizeRaises(_, _)
NormalizeRaises(node, divider) ==
    \/ IsZero(divider)
    \/ /\ Len(node.children) > 0
       /\ \E i \in 1..Len(node.children) :
              NormalizeRaises(node.children[i], SumValues(node.children))

\* a factor that takes the weights for percentages of the parent's weight
rescale_factor_percent(multiplier, divider) == Div(multiplier, Float(100))

\* the factor without the "* 1.0": the integer division of Python 2
rescale_factor_int(multiplier, divider) ==
    Float((multiplier[1] * divider[2]) \div (multiplier[2] * divider[1]))

\* line 93: multiplier * 1.0 / divider
rescale_factor(multiplier, divider) == Div(multiplier, divider)

RECURSIVE normalize(_, _, _)
normalize(node, multiplier, divider) ==
    IF IsZero(divider) THEN node
    ELSE
      LET value == Mul(node.value, rescale_factor(multiplier, divider))
          kids  == node.children
          d     == SumValues(kids)
          \* the children before the first one whose call raises are normalized,
          \* that one is left as its own call leaves it, the rest are not visited
          bad   == {i \in 1..Len(kids) : NormalizeRaises(kids[i], d)}
          first == IF bad = {} THEN Len(kids) + 1
                   ELSE CHOOSE i \in bad : \A j \in bad : i <= j
      IN  [node EXCEPT !.value = value,
                       !.children = IF Len(kids) = 0 THEN <<>>
                                    ELSE [i \in 1..Len(kids) |->
                                            IF i <= first
                                            THEN normalize(kids[i], value, d)
                                            ELSE kids[i]]]

(***************************************************************************)
(* Node.get_leaves (lines 36-47): appends the leaves below node to the     *)
(* list it is given and returns that list.                                 *)
(***************************************************************************)
RECURSIVE get_leaves(_, _)
get_leaves(node, leaves) ==
    IF Len(node.children) = 0 THEN Append(leaves, node)
    ELSE
      LET RECURSIVE Walk(_)
          Walk(i) == IF i = 0 THEN leaves
                     ELSE get_leaves(node.children[i], Walk(i - 1))
      IN  Walk(Len(node.children))

(***************************************************************************)
(* Python dicts, as functions from the set of their keys.                  *)
(***************************************************************************)
EmptyDict == [k \in {} |-> 0]
DictSet(d, k, v) == [x \in (DOMAIN d) \cup {k} |-> IF x = k THEN v ELSE d[x]]
setdefault(d, k, v) == IF k \in DOMAIN d THEN d ELSE DictSet(d, k, v)

ZeroEntry == DictSet(DictSet(DictSet(EmptyDict, PLEDGED, Float(0)), QUEUED, Float(0)),
                     EXECUTING, Float(0))

(***************************************************************************)
(* GlobalShares.__get_hs_leave_distribution, lines 326-352, on the rows    *)
(* <<gshare, status_group, hs>> the query returned.                        *)
(***************************************************************************)
\* lines 331-341: one row of the query result
HsEntryStep(acc, hs_entry) ==
    LET gshare       == hs_entry[1]
        status_group == hs_entry[2]
        hs           == Float(hs_entry[3])
        d1           == setdefault(acc.dict, gshare, ZeroEntry)
        d2           == DictSet(d1, gshare, DictSet(d1[gshare], status_group, hs))
    IN  [dict            |-> d2,
         queued_total    |-> IF status_group = QUEUED
                             THEN Add(acc.queued_total, hs) ELSE acc.queued_total,
         executing_total |-> IF status_group = QUEUED THEN acc.executing_total
                             ELSE IF status_group = EXECUTING
                                  THEN Add(acc.executing_total, hs)
                                  ELSE acc.executing_total,
         ignore_total    |-> IF status_group \in {QUEUED, EXECUTING}
                             THEN acc.ignore_total ELSE Add(acc.ignore_total, hs)]

\* lines 327-341: the loop over the rows
RECURSIVE HsRawLoop(_, _)
HsRawLoop(raw, n) ==
    IF n = 0
    THEN [dict |-> EmptyDict, queued_total |-> Float(0),
          executing_total |-> Float(0), ignore_total |-> Float(0)]
    ELSE HsEntryStep(HsRawLoop(raw, n - 1), raw[n])

\* line 346
hs_pledged_share(hs_executing_total, share_value) ==
    Div(Mul(hs_executing_total, share_value), Float(100))

\* lines 344-350: the loop over self.leave_shares
RECURSIVE HsPledgeLoop(_, _, _, _)
HsPledgeLoop(d, hs_executing_total, leaves, n) ==
    IF n = 0 THEN d
    ELSE LET d0   == HsPledgeLoop(d, hs_executing_total, leaves, n - 1)
             node == leaves[n]
             d1   == setdefault(d0, node.name, ZeroEntry)
         IN  DictSet(d1, node.name,
                     DictSet(d1[node.name], PLEDGED,
                             hs_pledged_share(hs_executing_total, node.value)))

get_hs_leave_distribution(raw, leaves) ==
    LET acc == HsRawLoop(raw, Len(raw))
    IN  HsPledgeLoop(acc.dict, acc.executing_total, leaves, Len(leaves))

(***************************************************************************)
(* Share.aggregate_hs_distribution (lines 150-187): returns the three sums *)
(* of the node and the map with the entries of the internal nodes written. *)
(***************************************************************************)
\* an aggregation that keeps an entry the map already has
write_aggregated_keep(d, name, entry) == setdefault(d, name, entry)

\* lines 180-184: hs_distribution[self.name] = {...}
write_aggregated(d, name, entry) == DictSet(d, name, entry)

RECURSIVE aggregate_hs_distribution(_, _)
aggregate_hs_distribution(node, d) ==
    IF Len(node.children) = 0
    THEN IF node.name \in DOMAIN d
         THEN [executing |-> d[node.name][EXECUTING], queued |-> d[node.name][QUEUED],
               pledged |-> d[node.name][PLEDGED], dict |-> d]
         ELSE [executing |-> Float(0), queued |-> Float(0), pledged |-> Float(0),
               dict |-> d]
    ELSE
      LET RECURSIVE Sum(_)
          Sum(i) ==
              IF i = 0
              THEN [executing |-> Float(0), queued |-> Float(0), pledged |-> Float(0),
                    dict |-> d]
              ELSE LET acc == Sum(i - 1)
                       c   == aggregate_hs_distribution(node.children[i], acc.dict)
                   IN  [executing |-> Add(acc.executing, c.executing),
                        queued    |-> Add(acc.queued, c.queued),
                        pledged   |-> Add(acc.pledged, c.pledged),
                        dict      |-> c.dict]
          s == Sum(Len(node.children))
      IN  [s EXCEPT !.dict =
              write_aggregated(s.dict, node.name,
                  DictSet(DictSet(DictSet(EmptyDict, EXECUTING, s.executing),
                                  QUEUED, s.queued), PLEDGED, s.pledged))]

(***************************************************************************)
(* Share.sort_branch_by_current_hs_distribution (lines 108-148).           *)
(***************************************************************************)
under_pledge(d, name) == Sub(d[name][PLEDGED], d[name][EXECUTING])

\* a comparison that also moves child1 before a child2 of equal under-pledge
child1_goes_first_ge(child1_under_pledge, child2_under_pledge) ==
    ~Gt(child2_under_pledge, child1_under_pledge)

\* line 135: child1_under_pledge > child2_under_pledge
child1_goes_first(child1_under_pledge, child2_under_pledge) ==
    Gt(child1_under_pledge, child2_under_pledge)

\* lines 122-139: the index at which child1 is inserted into children_sorted
insert_index(children_sorted, child1, d) ==
    LET c1 == under_pledge(d, child1.name)
        RECURSIVE Scan(_, _)
        \* k: position of child2 in children_sorted; li: loop_index
        Scan(k, li) ==
            IF k > Len(children_sorted) THEN Len(children_sorted)
            ELSE IF children_sorted[k].name \notin DOMAIN d
                 THEN Scan(k + 1, li)                       \* except KeyError: continue
                 ELSE IF child1_goes_first(c1, under_pledge(d, children_sorted[k].name))
                      THEN li
                      ELSE Scan(k + 1, li + 1)
    IN  Scan(1, 0)

\* list.insert(i, x)
Insert(s, i, x) == SubSeq(s, 1, i) \o <<x>> \o SubSeq(s, i + 1, Len(s))

\* lines 120-142: the children of node, sorted
RECURSIVE children_sorted_of(_, _, _)
children_sorted_of(children, n, d) ==
    IF n = 0 THEN <<>>
    ELSE LET sorted == children_sorted_of(children, n - 1, d)
         IN  Insert(sorted, insert_index(sorted, children[n], d), children[n])

\* line 126 raises KeyError for a child that has no entry in the map
RECURSIVE SortRaises(_, _)
SortRaises(node, d) ==
    \E i \in 1..Len(node.children) :
        \/ node.children[i].name \notin DOMAIN d
        \/ SortRaises(node.children[i], d)

RECURSIVE sort_branch_by_current_hs_distribution(_, _)
sort_branch_by_current_hs_distribution(node, d) ==
    IF Len(node.children) = 0 THEN <<node>>
    ELSE
      LET sorted == children_sorted_of(node.children, Len(node.children), d)
          RECURSIVE Extend(_)
          Extend(i) == IF i = 0 THEN <<>>
                       ELSE Extend(i - 1) \o
                            sort_branch_by_current_hs_distribution(sorted[i], d)
      IN  Extend(Len(sorted))

NamesOf(nodes) == IF Len(nodes) = 0 THEN <<>>
                  ELSE [i \in 1..Len(nodes) |-> nodes[i].name]

(***************************************************************************)
(* re.match(pattern, string): the pattern matches a prefix of the string.  *)
(* A pattern is a sequence of tokens [ch, star]: ch is a character or "."  *)
(* (any character), star says whether the token is followed by "*".        *)
(***************************************************************************)
Lit(c)  == [ch |-> c, star |-> FALSE]
Star(c) == [ch |-> c, star |-> TRUE]

RECURSIVE MatchFrom(_, _, _, _)
MatchFrom(re, i, s, j) ==
    IF i > Len(re) THEN TRUE
    ELSE LET t  == re[i]
             ok == j <= Len(s) /\ (t.ch = "." \/ t.ch = s[j])
         IN  IF t.star
             THEN (ok /\ MatchFrom(re, i, s, j + 1)) \/ MatchFrom(re, i + 1, s, j)
             ELSE ok /\ MatchFrom(re, i + 1, s, j + 1)

re_match(pattern, s) == MatchFrom(pattern.re, 1, s, 1)

(***************************************************************************)
(* GlobalShares.compare_share_task (lines 256-273) and get_share_for_task  *)
(* (lines 275-291).                                                        *)
(***************************************************************************)
compare_share_task(share, t) ==
    IF ~share.prodsourcelabel.isNone /\ ~re_match(share.prodsourcelabel, t.prodSourceLabel)
    THEN FALSE
    ELSE IF ~share.workinggroup.isNone /\ ~re_match(share.workinggroup, t.workingGroup)
    THEN FALSE
    ELSE IF ~share.campaign.isNone /\ ~re_match(share.campaign, t.campaign)
    THEN FALSE
    ELSE IF ~share.processingtype.isNone /\ ~re_match(share.processingtype, t.processingtype)
    THEN FALSE
    ELSE TRUE

\* the loop without its break: the last matching leaf wins
get_share_for_task_no_break(leaves, t) ==
    LET RECURSIVE Loop(_, _)
        Loop(i, selected) ==
            IF i > Len(leaves) THEN selected
            ELSE Loop(i + 1, IF compare_share_task(leaves[i], t) THEN leaves[i].name
                             ELSE selected)
    IN  Loop(1, "Undefined")

get_share_for_task(leaves, t) ==
    LET RECURSIVE Loop(_)
        Loop(i) == IF i > Len(leaves) THEN "Undefined"
                   ELSE IF compare_share_task(leaves[i], t) THEN leaves[i].name
                        ELSE Loop(i + 1)
    IN  Loop(1)

(***************************************************************************)
(* Inputs.                                                                 *)
(***************************************************************************)
Row(name, value, parent, psl, wg, campaign, ptype) ==
    [name |-> name, value |-> value, parent |-> parent, prodsourcelabel |-> psl,
     workinggroup |-> wg, campaign |-> campaign, processingtype |-> ptype]

PlainRow(name, value, parent) ==
    Row(name, value, parent, NoPattern, NoPattern, NoPattern, NoPattern)

ShareNames == <<"A", "B", "C", "D">>
NameIndex(n) == CHOOSE i \in 1..Len(ShareNames) : ShareNames[i] = n
Weights == {0, 1, 2}

\* every shares table of at most MaxRows rows over three names: any parent links
\* (cycles, duplicate names, rows no top-level row leads to) and any weights; the
\* names are interchangeable, so the rows are listed by name
TreeNames == {"A", "B", "C"}
TreeRows == {PlainRow(n, w, p) : n \in TreeNames, w \in Weights,
                                 p \in TreeNames \cup {NoParent}}
TreeStores ==
    UNION {{s \in [1..n -> TreeRows] :
              \A i \in 1..(n - 1) : NameIndex(s[i].name) <= NameIndex(s[i + 1].name)}
           : n \in 0..MaxRows}

\* shares tables for the refresh and the ranking: root -> {A -> {B, C}, D} and
\* root -> {A, B, C}
NestedStore(w) == <<PlainRow("A", w[1], NoParent), PlainRow("B", w[2], "A"),
                    PlainRow("C", w[3], "A"), PlainRow("D", w[4], NoParent)>>
FlatStore(w) == <<PlainRow("A", w[1], NoParent), PlainRow("B", w[2], NoParent),
                  PlainRow("C", w[3], NoParent)>>
MainStores == {NestedStore(w) : w \in {<<1, 1, 1, 1>>, <<2, 1, 3, 1>>}}
              \cup {FlatStore(w) : w \in {<<1, 1, 2>>}}

\* the rows a query of JOBS_SHARE_STATS may return: at most MaxRaw of the rows
\* below, in this order.  They name leaves, the internal node A of the nested
\* table, and two shares that are in no table (X; D for the flat table); the
\* query groups by share and status, so no two rows share both.
RawRows == << <<"A", EXECUTING, 1>>, <<"A", QUEUED, 1>>,
              <<"B", EXECUTING, 2>>, <<"B", QUEUED, 1>>, <<"B", IGNORE, 2>>,
              <<"C", EXECUTING, 1>>,
              <<"D", EXECUTING, 1>>,
              <<"X", EXECUTING, 1>>, <<"X", IGNORE, 1>> >>
RawInputs ==
    UNION {{[i \in 1..n |-> RawRows[ks[i]]] :
              ks \in {f \in [1..n -> 1..Len(RawRows)] :
                        \A i \in 1..(n - 1) : f[i] < f[i + 1]}}
           : n \in 0..MaxRaw}

(***************************************************************************)
(* State.                                                                  *)
(***************************************************************************)
NoCall == [op |-> "none", arg |-> <<>>]

InitWith(stores) ==
    /\ store \in stores
    /\ phase = "new"
    /\ tree = RootShare
    /\ default_leaves = <<>>
    /\ leaves_calls = 0
    /\ hs_distribution = EmptyDict
    /\ reload_pc = "idle"
    /\ reload_caller = "none"
    /\ reload_raw = <<>>
    /\ call = NoCall
    /\ raised = "none"
    /\ returned = <<>>

Init == InitWith(MainStores)
InitTree == InitWith(TreeStores)

\* self.leave_shares and the default list of get_leaves are one list object
leave_shares == default_leaves

(***************************************************************************)
(* GlobalShares.__init__, lines 203-218: load the branches, normalize, get *)
(* the leaves.  The constructor goes on to reload_hs_distribution (line    *)
(* 221), modelled by the Reload actions with reload_caller = "__init__".   *)
(***************************************************************************)
Build ==
    /\ phase = "new"
    /\ call' = [op |-> "__init__", arg |-> <<>>]
    /\ returned' = <<>>
    /\ IF LoadFails(store)
       THEN /\ tree' = LoadTree(store)
            /\ phase' = "failed"
            /\ raised' = "RuntimeError"      \* maximum recursion depth exceeded
            /\ UNCHANGED <<default_leaves, reload_caller>>
       ELSE LET loaded == LoadTree(store)
            IN  /\ tree' = normalize(loaded, Float(100), Float(100))
                /\ IF NormalizeRaises(loaded, Float(100))
                   THEN /\ phase' = "failed"
                        /\ raised' = "ZeroDivisionError"
                        /\ UNCHANGED <<default_leaves, reload_caller>>
                   ELSE /\ phase' = "built"
                        /\ raised' = "none"
                        /\ default_leaves' = get_leaves(tree', default_leaves)
                        /\ UNCHANGED reload_caller
    /\ UNCHANGED <<store, leaves_calls, hs_distribution, reload_pc, reload_raw>>

(***************************************************************************)
(* A call of tree.get_leaves() with no argument, after the constructor's.  *)
(***************************************************************************)
GetLeaves ==
    /\ phase \in {"built", "ready"}
    /\ leaves_calls < MaxLeavesCalls
    /\ leaves_calls' = leaves_calls + 1
    /\ default_leaves' = get_leaves(tree, default_leaves)
    /\ call' = [op |-> "get_leaves", arg |-> <<>>]
    /\ raised' = "none"
    /\ returned' = default_leaves'
    /\ UNCHANGED <<store, phase, tree, hs_distribution, reload_pc, reload_caller,
                   reload_raw>>

SpecTree == InitTree /\ [][Build \/ GetLeaves]_vars

(***************************************************************************)
(* A call of tree.normalize() with no argument (multiplier = 100, divider  *)
(* = 100, line 89) on the tree the constructor has built and normalized.   *)
(* The Share objects in leave_shares are those of the tree, so the list    *)
(* shows their weights after the call.                                     *)
(***************************************************************************)
Normalize ==
    /\ phase = "built"
    /\ tree' = normalize(tree, Float(100), Float(100))
    /\ default_leaves' =
          LET now == get_leaves(tree', <<>>)
          IN  IF Len(default_leaves) = 0 THEN <<>>
              ELSE [i \in 1..Len(default_leaves) |-> now[((i - 1) % Len(now)) + 1]]
    /\ call' = [op |-> "normalize", arg |-> <<>>]
    /\ raised' = IF NormalizeRaises(tree, Float(100)) THEN "ZeroDivisionError"
                 ELSE "none"
    /\ returned' = <<>>
    /\ UNCHANGED <<store, phase, leaves_calls, hs_distribution, reload_pc,
                   reload_caller, reload_raw>>

SpecNormalize == InitTree /\ [][Build \/ Normalize]_vars

(***************************************************************************)
(* Properties of the tree.                                                 *)
(***************************************************************************)
RECURSIVE WeightSum(_, _)
WeightSum(nodes, n) == IF n = 0 THEN Float(0)
                       ELSE Add(nodes[n].value, WeightSum(nodes, n - 1))

\* every node that has children carries the sum of their weights
RECURSIVE ChildrenSumToParent(_)
ChildrenSumToParent(node) ==
    \/ Len(node.children) = 0
    \/ /\ WeightSum(node.children, Len(node.children)) = node.value
       /\ \A i \in 1..Len(node.children) : ChildrenSumToParent(node.children[i])

\* every sibling group has a positive weight sum
RECURSIVE GroupsPositive(_)
GroupsPositive(node) ==
    \/ Len(node.children) = 0
    \/ /\ WeightSum(node.children, Len(node.children))[1] > 0
       /\ \A i \in 1..Len(node.children) : GroupsPositive(node.children[i])

\* normalize() was called on the tree: it returned, or it raised
NormalizeCalled ==
    phase \in {"built", "ready"} \/ (phase = "failed" /\ raised = "ZeroDivisionError")

RECURSIVE AllZero(_)
AllZero(node) ==
    /\ IsZero(node.value)
    /\ \A i \in 1..Len(node.children) : AllZero(node.children[i])

\* loaded: the tree as built; now: the same tree after normalize().  Below a
\* node whose children all had weight zero every weight is zero; the children
\* of every other node sum to the node's weight.
RECURSIVE DegenerateBranchesZero(_, _)
DegenerateBranchesZero(loaded, now) ==
    \/ Len(loaded.children) = 0
    \/ /\ Len(now.children) = Len(loaded.children)
       /\ IF IsZero(WeightSum(loaded.children, Len(loaded.children)))
          THEN \A i \in 1..Len(now.children) : AllZero(now.children[i])
          ELSE /\ WeightSum(now.children, Len(now.children)) = now.value
               /\ \A i \in 1..Len(now.children) :
                     DegenerateBranchesZero(loaded.children[i], now.children[i])

\* C11 as stated: on a tree in which the children of some node all have weight
\* zero, the constructor's normalize() raises no error and completes, the nodes
\* below that node have weight zero and the rest of the tree is normalized.
C11_ZeroGroupNoError ==
    (call.op = "__init__" /\ ~LoadFails(store) /\ ~GroupsPositive(LoadTree(store)))
        => /\ raised = "none"
           /\ phase = "built"
           /\ tree.value = Float(100)
           /\ DegenerateBranchesZero(LoadTree(store), tree)

(***************************************************************************)
(* normalize() called again.                                               *)
(***************************************************************************)
\* some node of weight zero has children
RECURSIVE ZeroParent(_)
ZeroParent(t) ==
    /\ Len(t.children) > 0
    /\ \/ IsZero(t.value)
       \/ \E i \in 1..Len(t.children) : ZeroParent(t.children[i])

\* C13 as stated: a second normalize() on the normalized tree rescales the
\* weights again: the weights after it differ from the weights before it.
C13_RepeatRescales ==
    [][(call'.op = "normalize") => (tree' # tree)]_vars

\* C13, amended: a second normalize() on the normalized tree leaves every
\* weight as the first call left it; it raises ZeroDivisionError exactly when
\* a node of weight zero has children, and completes otherwise.
C13_RepeatKeepsWeights ==
    [][(call'.op = "normalize")
          => /\ tree' = tree
             /\ default_leaves' = default_leaves
             /\ (raised' = "ZeroDivisionError") <=> ZeroParent(tree)
             /\ (raised' = "none") <=> ~ZeroParent(tree)]_vars

\* a second normalize() has returned on a tree of depth 2 whose weights the
\* first call had rescaled, siblings of different weights below the top level
C13_Witness ==
    /\ call.op = "normalize"
    /\ raised = "none"
    /\ tree # LoadTree(store)
    /\ \E i \in 1..Len(tree.children) :
          /\ Len(tree.children[i].children) = 2
          /\ tree.children[i].children[1].value # tree.children[i].children[2].value
          /\ ~IsZero(tree.children[i].children[1].value)
          /\ ~IsZero(tree.children[i].children[2].value)

(***************************************************************************)
(* Cycles of the shares table.                                             *)
(***************************************************************************)
\* the names reached from the top-level rows by following parent -> child
RECURSIVE ReachedFrom(_, _, _)
ReachedFrom(rows, names, n) ==
    IF n = 0 THEN names
    ELSE ReachedFrom(rows,
                     names \cup {rows[i].name : i \in {j \in 1..Len(rows) :
                                                         rows[j].parent \in names}},
                     n - 1)

ChildrenOf(rows, name) ==
    {rows[i].name : i \in {j \in 1..Len(rows) : rows[j].parent = name}}

\* some share the build reaches is its own descendant
HasCycle(rows) ==
    \E i \in 1..Len(rows) :
        /\ rows[i].name \in ReachedFrom(rows, {NoParent}, Len(rows))
        /\ rows[i].name \in ReachedFrom(rows, ChildrenOf(rows, rows[i].name), Len(rows))

\* C9 as stated: a build from a shares table whose parent links hold a cycle
\* stops at a bounded depth of its own and ends in a ConfigurationError.
C9_CycleIsConfigurationError ==
    (phase # "new" /\ HasCycle(store))
        => (phase = "failed" /\ raised = "ConfigurationError")

(***************************************************************************)
(* The leaves in depth-first order, each once.                             *)
(***************************************************************************)
RECURSIVE DepthFirstLeaves(_)
DepthFirstLeaves(node) ==
    IF Len(node.children) = 0 THEN <<node>>
    ELSE LET RECURSIVE Cat(_)
             Cat(i) == IF i > Len(node.children) THEN <<>>
                       ELSE DepthFirstLeaves(node.children[i]) \o Cat(i + 1)
         IN  Cat(1)

\* C10 as stated: every call of get_leaves on the root of the unchanged tree
\* returns the leaves in depth-first order, each exactly once.
C10_LeavesStable ==
    (call.op = "get_leaves") => (returned = DepthFirstLeaves(tree))

(***************************************************************************)
(* reload_hs_distribution (lines 232-237), called by __init__ (line 221),  *)
(* by get_sorted_leaves(refresh=True) (line 228) or on its own.  One       *)
(* thread reloads at a time.                                               *)
(***************************************************************************)
ReloadCallers ==
    IF phase = "built" THEN {"__init__"}
    ELSE IF phase = "ready" THEN {"reload_hs_distribution", "get_sorted_leaves"}
    ELSE {}

\* what get_sorted_leaves gives its caller on the map d (line 230)
SortedLeavesOn(d) ==
    IF SortRaises(tree, d) THEN <<"KeyError">>
    ELSE NamesOf(sort_branch_by_current_hs_distribution(tree, d))

\* line 236: the query succeeds and the leaf-level map becomes the current one
ReloadAssign ==
    /\ reload_pc = "idle"
    /\ \E caller \in ReloadCallers, raw \in RawInputs :
          /\ hs_distribution' = get_hs_leave_distribution(raw, leave_shares)
          /\ reload_raw' = raw
          /\ reload_caller' = caller
          /\ call' = [op |-> "reload:assign", arg |-> <<caller>>]
    /\ reload_pc' = "aggregate"
    /\ raised' = "none"
    /\ returned' = <<>>
    /\ UNCHANGED <<store, phase, tree, default_leaves, leaves_calls>>

\* a reload that empties the current map before it queries
AfterFailedFetch_cleared(d) == EmptyDict

\* the map a failed query leaves as the current one: line 236 assigns only once
\* __get_hs_leave_distribution has returned
AfterFailedFetch(d) == d

\* line 236: the query fails and the exception leaves reload_hs_distribution
\* (and __init__, when it is the caller)
ReloadFails ==
    /\ reload_pc = "idle"
    /\ \E caller \in ReloadCallers :
          call' = [op |-> "reload:failed", arg |-> <<caller>>]
    /\ hs_distribution' = AfterFailedFetch(hs_distribution)
    /\ phase' = IF phase = "built" THEN "failed" ELSE phase
    /\ raised' = "DatabaseError"
    /\ returned' = <<>>
    /\ UNCHANGED <<store, tree, default_leaves, leaves_calls, reload_pc, reload_caller,
                   reload_raw>>

\* line 237: the aggregation, in place on the current map; then __init__ is
\* done, and get_sorted_leaves(refresh=True) sorts (line 230)
ReloadAggregate ==
    /\ reload_pc = "aggregate"
    /\ hs_distribution' = aggregate_hs_distribution(tree, hs_distribution).dict
    /\ reload_pc' = "idle"
    /\ phase' = "ready"
    /\ IF reload_caller = "get_sorted_leaves"
       THEN /\ call' = [op |-> "get_sorted_leaves", arg |-> <<TRUE>>]
            /\ returned' = SortedLeavesOn(hs_distribution')
            /\ raised' = IF SortRaises(tree, hs_distribution') THEN "KeyError" ELSE "none"
       ELSE /\ call' = [op |-> "reload:aggregate", arg |-> <<reload_caller>>]
            /\ returned' = <<>>
            /\ raised' = "none"
    /\ reload_caller' = "none"
    /\ UNCHANGED <<store, tree, default_leaves, leaves_calls, reload_raw>>

(***************************************************************************)
(* get_sorted_leaves(refresh=False), lines 223-230, by a thread other than *)
(* the reloading one: it sorts on the map that is current when it runs.    *)
(***************************************************************************)
GetSortedLeaves ==
    /\ phase = "ready"
    /\ call' = [op |-> "get_sorted_leaves", arg |-> <<FALSE>>]
    /\ returned' = SortedLeavesOn(hs_distribution)
    /\ raised' = IF SortRaises(tree, hs_distribution) THEN "KeyError" ELSE "none"
    /\ UNCHANGED <<store, phase, tree, default_leaves, leaves_calls, hs_distribution,
                   reload_pc, reload_caller, reload_raw>>

Next ==
    \/ Build
    \/ ReloadAssign
    \/ ReloadFails
    \/ ReloadAggregate
    \/ GetSortedLeaves

Spec == Init /\ [][Next]_vars

(***************************************************************************)
(* Properties of the distribution.                                         *)
(***************************************************************************)
RECURSIVE AllNodes(_)
AllNodes(node) ==
    {node} \cup UNION {AllNodes(node.children[i]) : i \in 1..Len(node.children)}

InternalNodes(t) == {n \in AllNodes(t) : Len(n.children) > 0}

Fields == {QUEUED, EXECUTING, PLEDGED}

\* the map has an entry for every node of the tree
Complete(t, d) == \A n \in AllNodes(t) : n.name \in DOMAIN d

\* sum of field f over the entries of the nodes in the sequence
RECURSIVE FieldSum(_, _, _, _)
FieldSum(d, nodes, f, n) ==
    IF n = 0 THEN Float(0)
    ELSE Add(FieldSum(d, nodes, f, n - 1), d[nodes[n].name][f])

\* every internal node has an entry whose three fields are the sums over the
\* leaves below it
Aggregated(t, d) ==
    \A n \in InternalNodes(t) :
        LET below == DepthFirstLeaves(n)
        IN  /\ n.name \in DOMAIN d
            /\ \A i \in 1..Len(below) : below[i].name \in DOMAIN d
            /\ \A f \in Fields :
                  /\ f \in DOMAIN d[n.name]
                  /\ d[n.name][f] = FieldSum(d, below, f, Len(below))

RawNames(raw) == {raw[i][1] : i \in 1..Len(raw)}

\* C2 as stated: the map a get_sorted_leaves(refresh=False) reads, whenever it
\* runs relative to a reload, has an entry for every node of the tree, the
\* internal nodes carrying the sums over their leaves.
C2_ReaderSeesAggregated ==
    (call = [op |-> "get_sorted_leaves", arg |-> <<FALSE>>])
        => (Complete(tree, hs_distribution) /\ Aggregated(tree, hs_distribution))

\* C3: a reload whose query fails reports the failure and leaves the current
\* map as it was, so that get_sorted_leaves(refresh=False) gives what it gave
\* before.
C3_FailedReloadKeepsSnapshot ==
    [][(call'.op = "reload:failed")
          => /\ raised' = "DatabaseError"
             /\ hs_distribution' = hs_distribution
             /\ tree' = tree
             /\ SortedLeavesOn(hs_distribution') = SortedLeavesOn(hs_distribution)]_vars

\* a reload has failed on an engine that holds an aggregated map with measurements
C3_Witness ==
    /\ call.op = "reload:failed"
    /\ phase = "ready"
    /\ Aggregated(tree, hs_distribution)
    /\ ~IsZero(hs_distribution["root"][EXECUTING])

\* C4: after a successful reload every internal node, the root included, has an
\* entry, each field of which is the sum of that field over the leaves below the
\* node; also when no leaf below it was measured and when the query returned a
\* row named after it.
C4_InternalNodesAreSums ==
    (phase = "ready" /\ reload_pc = "idle") => Aggregated(tree, hs_distribution)

\* a reload is done whose rows named an internal node and none of its leaves,
\* while other leaves were executing
C4_Witness ==
    /\ phase = "ready" /\ reload_pc = "idle"
    /\ call.op = "reload:aggregate"
    /\ \E n \in InternalNodes(tree) :
          LET below == DepthFirstLeaves(n)
          IN  /\ n.name \in RawNames(reload_raw)
              /\ \A i \in 1..Len(below) : below[i].name \notin RawNames(reload_raw)
              /\ IsZero(hs_distribution[n.name][EXECUTING])
              /\ ~IsZero(hs_distribution["root"][EXECUTING])

\* C5 as stated: after a successful reload, pledged[leaf] is
\* totalExecuting * weight / 100 for every leaf, totalExecuting being the sum of
\* the executing values of the leaves of the tree only.
C5_PledgedFromLeafTotal ==
    (phase = "ready" /\ reload_pc = "idle")
        => LET leaves == DepthFirstLeaves(tree)
               total  == FieldSum(hs_distribution, leaves, EXECUTING, Len(leaves))
           IN  \A i \in 1..Len(leaves) :
                  hs_distribution[leaves[i].name][PLEDGED]
                      = Div(Mul(total, leaves[i].value), Float(100))

\* the rows of the query that are not of the 'ignore' group
WithoutIgnore(raw) == SelectSeq(raw, LAMBDA r : r[2] \in {QUEUED, EXECUTING})

\* C6 as stated: after a reload every entry of the map has exactly the fields
\* queued, executing and pledged, and these are what they would be had the
\* query returned no 'ignore' row.
C6_IgnoreNeverInMap ==
    (phase = "ready" /\ reload_pc = "idle")
        => LET clean == aggregate_hs_distribution(tree,
                            get_hs_leave_distribution(WithoutIgnore(reload_raw),
                                                      leave_shares)).dict
           IN  \A name \in DOMAIN hs_distribution :
                  /\ DOMAIN hs_distribution[name] = Fields
                  /\ name \in DOMAIN clean
                  /\ \A f \in Fields : hs_distribution[name][f] = clean[name][f]

(***************************************************************************)
(* The ranking, defined at each node from the under-pledges of its         *)
(* children.                                                               *)
(***************************************************************************)
\* child j stands before child k: larger under-pledge, or equal and earlier
Before(children, d, j, k) ==
    LET uj == under_pledge(d, children[j].name)
        uk == under_pledge(d, children[k].name)
    IN  Gt(uj, uk) \/ (uj = uk /\ j < k)

RankOf(children, d, k) ==
    1 + Cardinality({j \in 1..Len(children) : Before(children, d, j, k)})

Ranked(children, d) ==
    [r \in 1..Len(children) |->
        children[CHOOSE k \in 1..Len(children) : RankOf(children, d, k) = r]]

RECURSIVE RankedLeaves(_, _)
RankedLeaves(node, d) ==
    IF Len(node.children) = 0 THEN <<node>>
    ELSE LET ranked == Ranked(node.children, d)
             RECURSIVE Cat(_)
             Cat(i) == IF i > Len(ranked) THEN <<>>
                       ELSE RankedLeaves(ranked[i], d) \o Cat(i + 1)
         IN  Cat(1)

PositionIn(names, name) == CHOOSE i \in 1..Len(names) : names[i] = name

\* every leaf below a child stands before every leaf below the children ranked
\* after it
BlocksInOrder(t, d, names) ==
    \A n \in InternalNodes(t) :
        \A j, k \in 1..Len(n.children) :
            Before(n.children, d, j, k) =>
                LET lj == DepthFirstLeaves(n.children[j])
                    lk == DepthFirstLeaves(n.children[k])
                IN  \A a \in 1..Len(lj), b \in 1..Len(lk) :
                        PositionIn(names, lj[a].name) < PositionIn(names, lk[b].name)

\* C7: on a map with an entry for every node, get_sorted_leaves returns the
\* leaves in the order defined from the root down: at each node the children by
\* descending under-pledge, equal ones in their original order, the results of
\* the children concatenated; so all leaves below a child stand before all
\* leaves below a child ranked after it.
C7_SortedByBlocks ==
    (call.op = "get_sorted_leaves" /\ Complete(tree, hs_distribution))
        => /\ raised = "none"
           /\ returned = NamesOf(RankedLeaves(tree, hs_distribution))
           /\ BlocksInOrder(tree, hs_distribution, returned)

\* get_sorted_leaves has returned an order in which a leaf stands before a leaf
\* of a larger under-pledge, because the parent of the first is ranked before
\* the second, and in which two children of one node tie
C7_Witness ==
    /\ call.op = "get_sorted_leaves"
    /\ Complete(tree, hs_distribution)
    /\ raised = "none"
    /\ \E i, j \in 1..Len(returned) :
          /\ i < j
          /\ Gt(under_pledge(hs_distribution, returned[j]),
                under_pledge(hs_distribution, returned[i]))
    /\ \E n \in InternalNodes(tree) : \E j, k \in 1..Len(n.children) :
          /\ j < k
          /\ under_pledge(hs_distribution, n.children[j].name)
                = under_pledge(hs_distribution, n.children[k].name)

(***************************************************************************)
(* Children that have no entry in the map.                                 *)
(***************************************************************************)
\* some node of the tree has a child without an entry in d
LacksEntry(t, d) ==
    \E n \in InternalNodes(t) : \E i \in 1..Len(n.children) :
        n.children[i].name \notin DOMAIN d

\* every leaf below a comes before every leaf below b in names
LeavesBefore(names, a, b) ==
    \A x \in AllNodes(a), y \in AllNodes(b) :
        (Len(x.children) = 0 /\ Len(y.children) = 0)
            => PositionIn(names, x.name) < PositionIn(names, y.name)

\* among the children of every node: one without an entry stands behind every
\* one with an entry, and those with entries stand by descending under-pledge
MissingBehind(t, d, names) ==
    \A n \in InternalNodes(t) : \A j, k \in 1..Len(n.children) :
        LET a == n.children[j]
            b == n.children[k]
        IN  /\ (a.name \in DOMAIN d /\ b.name \notin DOMAIN d)
                  => LeavesBefore(names, a, b)
            /\ (a.name \in DOMAIN d /\ b.name \in DOMAIN d
                   /\ Gt(under_pledge(d, a.name), under_pledge(d, b.name)))
                  => LeavesBefore(names, a, b)

\* C12 as stated: a get_sorted_leaves that reads a map without an entry for
\* some children raises no error, returns those children behind their siblings
\* that have an entry, and these by descending under-pledge.
C12_MissingEntryNoError ==
    (call.op = "get_sorted_leaves" /\ LacksEntry(tree, hs_distribution))
        => /\ raised = "none"
           /\ MissingBehind(tree, hs_distribution, returned)

(***************************************************************************)
(* get_share_for_task, on an engine built from a shares table whose leaves *)
(* carry classifier patterns.                                              *)
(***************************************************************************)
\* the patterns of one leaf: prodsourcelabel, workinggroup, campaign,
\* processingtype
LeafPatterns ==
    { <<NoPattern, NoPattern, NoPattern, NoPattern>>,
      <<Pat(<<Lit("a")>>), NoPattern, NoPattern, NoPattern>>,
      <<Pat(<<Lit("a"), Lit("b")>>), Pat(<<Lit("a")>>), NoPattern, NoPattern>>,
      <<NoPattern, Pat(<<Star("."), Lit("b")>>), NoPattern, NoPattern>>,
      <<NoPattern, NoPattern, NoPattern, Pat(<<Star("b"), Lit("a")>>)>>,
      <<Pat(<<Lit("b")>>), Pat(<<Lit("b")>>), Pat(<<Lit("a")>>), Pat(<<Lit("a")>>)>> }

\* root -> {A -> {B, C}, D} with patterns on the leaves B, C and D
ClassifyStore(pb, pc, pd) ==
    << PlainRow("A", 1, NoParent),
       Row("B", 1, "A", pb[1], pb[2], pb[3], pb[4]),
       Row("C", 1, "A", pc[1], pc[2], pc[3], pc[4]),
       Row("D", 1, NoParent, pd[1], pd[2], pd[3], pd[4]) >>
ClassifyStores ==
    {ClassifyStore(pb, pc, pd) : pb \in LeafPatterns, pc \in LeafPatterns,
                                 pd \in LeafPatterns}

Tasks == [prodSourceLabel : {<<"a">>, <<"a", "b">>, <<"b">>},
          workingGroup    : {<<"a">>, <<"a", "b">>, <<"b">>},
          campaign        : {<<"a">>, <<"b">>},
          processingtype  : {<<"a">>, <<"b", "a">>}]

\* the engine after GlobalShares() on a table of ClassifyStores, the first query
\* having returned no row
InitClassify ==
    /\ store \in ClassifyStores
    /\ phase = "ready"
    /\ tree = normalize(LoadTree(store), Float(100), Float(100))
    /\ default_leaves = get_leaves(tree, <<>>)
    /\ leaves_calls = 0
    /\ hs_distribution =
          aggregate_hs_distribution(tree,
              get_hs_leave_distribution(<<>>, default_leaves)).dict
    /\ reload_pc = "idle"
    /\ reload_caller = "none"
    /\ reload_raw = <<>>
    /\ call = [op |-> "reload:aggregate", arg |-> <<"__init__">>]
    /\ raised = "none"
    /\ returned = <<>>

GetShareForTask ==
    /\ phase = "ready"
    /\ \E t \in Tasks :
          /\ call' = [op |-> "get_share_for_task", arg |-> <<t>>]
          /\ returned' = <<get_share_for_task(leave_shares, t)>>
    /\ raised' = "none"
    /\ UNCHANGED <<store, phase, tree, default_leaves, leaves_calls, hs_distribution,
                   reload_pc, reload_caller, reload_raw>>

SpecClassify == InitClassify /\ [][GetShareForTask \/ GetLeaves]_vars

\* all four classifier fields of the leaf are null or match the field of the task
LeafMatches(leaf, t) ==
    /\ leaf.prodsourcelabel.isNone \/ re_match(leaf.prodsourcelabel, t.prodSourceLabel)
    /\ leaf.workinggroup.isNone \/ re_match(leaf.workinggroup, t.workingGroup)
    /\ leaf.campaign.isNone \/ re_match(leaf.campaign, t.campaign)
    /\ leaf.processingtype.isNone \/ re_match(leaf.processingtype, t.processingtype)

====
